---- MODULE Spec2Model ----
(***************************************************************************)
(* VideoRecorder of src/cameras/persistence/video_writer/video_recorder.py *)
(* as a state machine.  The recorder object (self), the encoder sinks it   *)
(* has created (cv2.VideoWriter objects), the two timestamp side-files and *)
(* the observable outcome of the most recent method call are the state;    *)
(* each public method is one action.                                       *)
(*                                                                         *)
(* Methods are operators from a "world" record to a world record, composed *)
(* in the order the code calls them.  A world is                            *)
(*   self     the VideoRecorder's fields                                    *)
(*   sink     the cv2.VideoWriter self._cv2_video_writer refers to          *)
(*   created  the number of cv2.VideoWriter objects constructed so far      *)
(*   npy_file, csv_file   the timestamp side-files                          *)
(*   events   calls made on the sinks and the filesystem during this call   *)
(*   exc      the exception propagating out of the call (NoExc if none)     *)
(*   ret      the value returned by the call                                *)
(***************************************************************************)
EXTENDS Integers, Sequences, FiniteSets, TLC

VARIABLES self, sink, created, npy_file, csv_file, events, exc, ret, called

vars == <<self, sink, created, npy_file, csv_file, events, exc, ret, called>>

(***************************************************************************)
(* Bounds of the model.                                                    *)
(***************************************************************************)
MaxFrames == 3
MaxSinks == 2
MaxReleases == 2
MaxImages == 2
MaxTimestamps == 6

(***************************************************************************)
(* Values.                                                                 *)
(***************************************************************************)
None == 0
NoExc == "NoExc"

\* Frames the capture source can supply: an image (by identity) and a
\* capture timestamp in nanoseconds.
Frames ==
    { [image |-> 1, timestamp |-> 0],
      [image |-> 2, timestamp |-> 33333333] }

Images == {f.image : f \in Frames}

\* A float is num/den, or nan, or inf.  NoRate stands for Python's None.
Float(n, d) == [kind |-> "finite", num |-> n, den |-> d]
NaN == [kind |-> "nan", num |-> 0, den |-> 0]
Inf == [kind |-> "inf", num |-> 0, den |-> 0]
NoRate == [kind |-> "None", num |-> 0, den |-> 0]

NanosPerSecond == 1000000000

\* Constructor arguments the model draws from.
InitArgs ==
    { [video_name |-> "cam0", image_width |-> 640, image_height |-> 480,
       fourcc |-> "MP4V", calibration_video_bool |-> FALSE,
       mediapipe_annotated_video_bool |-> FALSE] }

(***************************************************************************)
(* numpy helpers, computed as numpy computes them (exact arithmetic).      *)
(***************************************************************************)
\* np.diff: consecutive differences, empty for fewer than two entries.
np_diff(a) ==
    IF Len(a) <= 1 THEN <<>>
    ELSE [i \in 1..(Len(a) - 1) |-> a[i + 1] - a[i]]

RECURSIVE Insert(_, _)
Insert(x, s) ==
    IF s = <<>> THEN <<x>>
    ELSE IF x <= Head(s) THEN <<x>> \o s
    ELSE <<Head(s)>> \o Insert(x, Tail(s))

RECURSIVE Sorted(_)
Sorted(s) == IF s = <<>> THEN <<>> ELSE Insert(Head(s), Sorted(Tail(s)))

\* np.nanmedian of a sequence of integers (nanoseconds): nan for the empty
\* sequence, else the middle of the sorted values (the mean of the two
\* middle ones for an even count).  The result is twice/2 nanoseconds.
np_nanmedian(d) ==
    IF Len(d) = 0 THEN [nan |-> TRUE, twice |-> 0]
    ELSE LET s == Sorted(d)
             n == Len(d)
         IN  [nan |-> FALSE,
              twice |-> IF n % 2 = 1
                        THEN 2 * s[(n + 1) \div 2]
                        ELSE s[n \div 2] + s[n \div 2 + 1]]

\* (median of the differences of timestamps / 1e9) ** -1, for a median of
\* m.twice / 2 nanoseconds: nan ** -1 is nan, 0.0 ** -1 is inf, and else
\* 1 / (twice / (2 * 1e9)) = 2e9 / twice frames per second.
reciprocal_of_seconds(m) ==
    IF m.nan THEN NaN
    ELSE IF m.twice = 0 THEN Inf
    ELSE Float(2 * NanosPerSecond, m.twice)

\* The timestamps of a list of frame payloads, in list order.
timestamps_of(frame_payload_list) ==
    IF Len(frame_payload_list) = 0 THEN <<>>
    ELSE [i \in 1..Len(frame_payload_list) |-> frame_payload_list[i].timestamp]

\* The images of a list of frame payloads, in list order.
images_of(frame_payload_list) ==
    IF Len(frame_payload_list) = 0 THEN <<>>
    ELSE [i \in 1..Len(frame_payload_list) |-> frame_payload_list[i].image]

(***************************************************************************)
(* The external collaborators: the encoder sink and the filesystem.        *)
(***************************************************************************)
\* A call made on a collaborator: on sink `id` (0: the filesystem), with
\* the image written (0: none) and whether the sink was open when called.
Event(e, id, image, opened) ==
    [ev |-> e, sink |-> id, image |-> image, opened |-> opened]

\* cv2.VideoWriter(path, fourcc, fps, frameSize): a new sink, open, bound
\* to its arguments.  id is the object's identity.
VideoWriter(id, path, fourcc, fps, frameSize) ==
    [id |-> id, path |-> path, fourcc |-> fourcc, fps |-> fps,
     frameSize |-> frameSize, isOpened |-> TRUE, releases |-> 0]

\* No object (the referent of None).
NoSink ==
    [id |-> 0, path |-> <<>>, fourcc |-> "", fps |-> NoRate,
     frameSize |-> <<>>, isOpened |-> FALSE, releases |-> 0]

\* writer.write(image): raises when the encoder fails.
VideoWriter_write(w, image, fails) ==
    [w EXCEPT !.exc = IF fails THEN "cv2.error" ELSE @,
              !.events = Append(@, Event(IF fails THEN "write_failed" ELSE "write",
                                         w.sink.id, image, w.sink.isOpened))]

\* writer.release()
VideoWriter_release(w) ==
    [w EXCEPT !.sink.isOpened = FALSE,
              !.sink.releases = @ + 1,
              !.events = Append(@, Event("release", w.sink.id, 0, w.sink.isOpened))]

NoFile == [exists |-> FALSE, data |-> <<>>]

\* np.save(path, array): the array verbatim, or an error and no file change.
np_save(w, array, fails) ==
    IF fails
    THEN [w EXCEPT !.exc = "OSError",
                   !.events = Append(@, Event("np.save", 0, 0, FALSE))]
    ELSE [w EXCEPT !.npy_file = [exists |-> TRUE, data |-> array],
                   !.events = Append(@, Event("np.save", 0, 0, FALSE))]

\* pd.DataFrame(array).to_csv(path): one row per entry, <<index, value>>,
\* the index counting from 0.
to_csv(w, array, fails) ==
    IF fails
    THEN [w EXCEPT !.exc = "OSError",
                   !.events = Append(@, Event("to_csv", 0, 0, FALSE))]
    ELSE [w EXCEPT !.csv_file =
                       [exists |-> TRUE,
                        data |-> IF Len(array) = 0 THEN <<>>
                                 ELSE [i \in 1..Len(array) |-> <<i - 1, array[i]>>]],
                   !.events = Append(@, Event("to_csv", 0, 0, FALSE))]

(***************************************************************************)
(* VideoRecorder.                                                          *)
(***************************************************************************)
\* __init__: the fields after construction.  The folder is chosen by the
\* flags, mediapipe-annotated before calibration before synchronized.
__init__(a) ==
    LET folder == IF a.mediapipe_annotated_video_bool THEN "mediapipe_annotated_videos"
                  ELSE IF a.calibration_video_bool THEN "calibration_videos"
                  ELSE "synchronized_videos"
    IN  [video_name |-> a.video_name,
         image_width |-> a.image_width,
         image_height |-> a.image_height,
         fourcc |-> a.fourcc,
         frame_payload_list |-> <<>>,
         timestamps_npy |-> <<>>,
         cv2_video_writer |-> None,
         median_framerate |-> NoRate,
         video_folder_path |-> folder,
         path_to_save_video_file |-> <<folder, a.video_name, ".mp4">>]

frame_count(w) == Len(w.self.frame_payload_list)

\* _gather_timestamps: appends every buffered frame's timestamp to
\* self._timestamps_npy (which is not emptied first).
_gather_timestamps(w) ==
    [w EXCEPT !.self.timestamps_npy = @ \o timestamps_of(w.self.frame_payload_list)]

\* median_framerate without its frame_count == 0 test.
median_framerate_unchecked(w) ==
    LET g == _gather_timestamps(w)
        r == reciprocal_of_seconds(np_nanmedian(np_diff(g.self.timestamps_npy)))
    IN  [g EXCEPT !.self.median_framerate = r, !.ret = r]

\* The median_framerate property.
median_framerate(w) ==
    IF frame_count(w) = 0
    THEN [w EXCEPT !.exc = "Exception"]
    ELSE LET g == _gather_timestamps(w)
             r == reciprocal_of_seconds(np_nanmedian(np_diff(g.self.timestamps_npy)))
         IN  [g EXCEPT !.self.median_framerate = r, !.ret = r]

_initialize_video_writer(w, frames_per_second) ==
    LET w1 == IF frames_per_second = NoRate THEN median_framerate(w) ELSE w
        fps == IF frames_per_second = NoRate THEN w1.ret ELSE frames_per_second
        id == w1.created + 1
    IN  IF w1.exc # NoExc THEN w1
        ELSE [w1 EXCEPT !.sink = VideoWriter(id, w.self.path_to_save_video_file,
                                             w.self.fourcc, fps,
                                             <<w.self.image_width, w.self.image_height>>),
                        !.created = id,
                        !.self.cv2_video_writer = id,
                        !.events = Append(@, Event("open", id, 0, FALSE)),
                        !.ret = NoRate]

\* The loop going on to the next image after a write raised.
RECURSIVE write_loop_keep_going(_, _, _, _)
write_loop_keep_going(w, images, i, failAt) ==
    IF i > Len(images) THEN w
    ELSE write_loop_keep_going(VideoWriter_write(w, images[i], i = failAt),
                               images, i + 1, failAt)

\* for image in images: writer.write(image), the failAt-th write raising
\* (failAt = 0: none does); the loop stops at the first exception.
RECURSIVE write_loop(_, _, _, _)
write_loop(w, images, i, failAt) ==
    IF i > Len(images) THEN w
    ELSE LET w1 == VideoWriter_write(w, images[i], i = failAt)
         IN  IF w1.exc # NoExc THEN w1
             ELSE write_loop(w1, images, i + 1, failAt)

\* _write_frame_list_to_video_file with the release after the loop instead
\* of in a finally clause.
_write_frame_list_to_video_file_no_finally(w, failAt) ==
    LET tried == write_loop(w, images_of(w.self.frame_payload_list), 1, failAt)
    IN  IF tried.exc # NoExc THEN tried ELSE VideoWriter_release(tried)

\* _write_frame_list_to_video_file whose except clause does not re-raise.
_write_frame_list_to_video_file_swallowing(w, failAt) ==
    LET tried == write_loop(w, images_of(w.self.frame_payload_list), 1, failAt)
    IN  VideoWriter_release([tried EXCEPT !.exc = NoExc])

\* try: the loop; except: re-raise; finally: release.
_write_frame_list_to_video_file(w, failAt) ==
    LET tried == write_loop(w, images_of(w.self.frame_payload_list), 1, failAt)
    IN  VideoWriter_release(tried)

_write_image_list_to_video_file(w, image_list, failAt) ==
    LET tried == write_loop(w, image_list, 1, failAt)
    IN  VideoWriter_release(tried)

\* np.save, then to_csv; an exception of the first leaves the method.
_save_timestamps(w, npyFails, csvFails) ==
    LET w1 == np_save(w, w.self.timestamps_npy, npyFails)
    IN  IF w1.exc # NoExc THEN w1
        ELSE to_csv(w1, w1.self.timestamps_npy, csvFails)

\* save_frame_payload_list_to_disk without its empty-list early return.
save_frame_payload_list_to_disk_no_return(w, failAt, npyFails, csvFails) ==
    LET w1 == _gather_timestamps(w)
        w2 == _initialize_video_writer(w1, NoRate)
        w3 == IF w2.exc # NoExc THEN w2
              ELSE _write_frame_list_to_video_file(w2, failAt)
    IN  IF w3.exc # NoExc THEN w3
        ELSE _save_timestamps(w3, npyFails, csvFails)

\* save_frame_payload_list_to_disk saving the timestamps before the video.
save_frame_payload_list_to_disk_timestamps_first(w, failAt, npyFails, csvFails) ==
    IF Len(w.self.frame_payload_list) = 0 THEN w
    ELSE LET w1 == _gather_timestamps(w)
             w2 == _initialize_video_writer(w1, NoRate)
             w3 == IF w2.exc # NoExc THEN w2
                   ELSE _save_timestamps(w2, npyFails, csvFails)
         IN  IF w3.exc # NoExc THEN w3
             ELSE _write_frame_list_to_video_file(w3, failAt)

save_frame_payload_list_to_disk(w, failAt, npyFails, csvFails) ==
    IF Len(w.self.frame_payload_list) = 0 THEN w
    ELSE LET w1 == _gather_timestamps(w)
             w2 == _initialize_video_writer(w1, NoRate)
             w3 == IF w2.exc # NoExc THEN w2
                   ELSE _write_frame_list_to_video_file(w2, failAt)
         IN  IF w3.exc # NoExc THEN w3
             ELSE _save_timestamps(w3, npyFails, csvFails)

\* save_image_list_to_disk that does not pass frame_rate on.
save_image_list_to_disk_rate_dropped(w, image_list, frame_rate, failAt) ==
    IF Len(image_list) = 0 THEN w
    ELSE LET w1 == _initialize_video_writer(w, NoRate)
         IN  IF w1.exc # NoExc THEN w1
             ELSE _write_image_list_to_video_file(w1, image_list, failAt)

save_image_list_to_disk(w, image_list, frame_rate, failAt) ==
    IF Len(image_list) = 0 THEN w
    ELSE LET w1 == _initialize_video_writer(w, frame_rate)
         IN  IF w1.exc # NoExc THEN w1
             ELSE _write_image_list_to_video_file(w1, image_list, failAt)

\* save_frame_payload_to_video_file without its None test: a sink per call.
save_frame_payload_to_video_file_reopening(w, frame_payload, fails) ==
    LET w1 == _initialize_video_writer(w, NoRate)
    IN  IF w1.exc # NoExc THEN w1
        ELSE VideoWriter_write(w1, frame_payload.image, fails)

save_frame_payload_to_video_file(w, frame_payload, fails) ==
    LET w1 == IF w.self.cv2_video_writer = None
              THEN _initialize_video_writer(w, NoRate)
              ELSE w
    IN  IF w1.exc # NoExc THEN w1
        ELSE VideoWriter_write(w1, frame_payload.image, fails)

\* close() constructing a sink when there is none, to have one to release.
close_opening(w) ==
    LET w1 == IF w.self.cv2_video_writer = None
              THEN _initialize_video_writer(w, Float(24, 1))
              ELSE w
    IN  VideoWriter_release(w1)

\* self._cv2_video_writer.release(): an AttributeError on None.
close(w) ==
    IF w.self.cv2_video_writer = None
    THEN [w EXCEPT !.exc = "AttributeError"]
    ELSE VideoWriter_release(w)

\* append_frame_payload_to_list putting the frame first (insert(0, ...)).
append_frame_payload_to_list_in_front(w, frame_payload) ==
    [w EXCEPT !.self.frame_payload_list = <<frame_payload>> \o @]

append_frame_payload_to_list(w, frame_payload) ==
    [w EXCEPT !.self.frame_payload_list = Append(@, frame_payload)]

(***************************************************************************)
(* The state machine: one action per public method.                        *)
(***************************************************************************)
\* No frame payload argument.
NoFrame == [image |-> 0, timestamp |-> 0]

\* The call just made: the method and its image_list, frame_rate and
\* frame_payload arguments (<<>>, NoRate and NoFrame for a method without).
Call(op, image_list, frame_rate, frame_payload) ==
    [op |-> op, image_list |-> image_list, frame_rate |-> frame_rate,
     frame_payload |-> frame_payload]

\* The world a call starts in.
Begin ==
    [self |-> self, sink |-> sink, created |-> created, npy_file |-> npy_file, csv_file |-> csv_file,
     events |-> <<>>, exc |-> NoExc, ret |-> NoRate]

\* The world a call ends in becomes the state.
Commit(w, c) ==
    /\ self' = w.self
    /\ sink' = w.sink
    /\ created' = w.created
    /\ npy_file' = w.npy_file
    /\ csv_file' = w.csv_file
    /\ events' = w.events
    /\ exc' = w.exc
    /\ ret' = w.ret
    /\ called' = c

\* Model bounds on what a call may add.
CanGather(k) == Len(self.timestamps_npy) + k * Len(self.frame_payload_list) <= MaxTimestamps
CanOpen == created < MaxSinks

\* Image lists a caller may pass: up to MaxImages images, none repeated.
ImageLists ==
    { l \in UNION { [1..n -> Images] : n \in 0..MaxImages } :
          \A i, j \in DOMAIN l : l[i] = l[j] => i = j }

FrameRates == { NoRate, Float(24, 1) }

Init ==
    /\ \E a \in InitArgs : self = __init__(a)
    /\ sink = NoSink
    /\ created = 0
    /\ npy_file = NoFile
    /\ csv_file = NoFile
    /\ events = <<>>
    /\ exc = NoExc
    /\ ret = NoRate
    /\ called = Call("__init__", <<>>, NoRate, NoFrame)

AppendFramePayloadToList ==
    \E f \in Frames :
        /\ Len(self.frame_payload_list) < MaxFrames
        /\ Commit(append_frame_payload_to_list(Begin, f),
                  Call("append_frame_payload_to_list", <<>>, NoRate, f))

ReadMedianFramerate ==
    /\ CanGather(1)
    /\ Commit(median_framerate(Begin), Call("median_framerate", <<>>, NoRate, NoFrame))

SaveFramePayloadListToDisk ==
    \E failAt \in 0..Len(self.frame_payload_list), npyFails, csvFails \in BOOLEAN :
        \* the side-file faults matter only when every image write succeeds
        /\ failAt # 0 => ~npyFails /\ ~csvFails
        /\ npyFails => ~csvFails
        /\ Len(self.frame_payload_list) > 0 => CanOpen /\ CanGather(2)
        /\ Commit(save_frame_payload_list_to_disk(Begin, failAt, npyFails, csvFails),
                  Call("save_frame_payload_list_to_disk", <<>>, NoRate, NoFrame))

SaveImageListToDisk ==
    \E image_list \in ImageLists, frame_rate \in FrameRates :
        \E failAt \in 0..Len(image_list) :
            /\ Len(image_list) > 0 => CanOpen
            /\ (Len(image_list) > 0 /\ frame_rate = NoRate) => CanGather(1)
            /\ Commit(save_image_list_to_disk(Begin, image_list, frame_rate, failAt),
                      Call("save_image_list_to_disk", image_list, frame_rate, NoFrame))

SaveFramePayloadToVideoFile ==
    \E f \in Frames, fails \in BOOLEAN :
        /\ self.cv2_video_writer = None => CanOpen /\ CanGather(1)
        /\ Commit(save_frame_payload_to_video_file(Begin, f, fails),
                  Call("save_frame_payload_to_video_file", <<>>, NoRate, f))

Close ==
    /\ sink.releases < MaxReleases
    /\ Commit(close(Begin), Call("close", <<>>, NoRate, NoFrame))

Next ==
    \/ AppendFramePayloadToList
    \/ ReadMedianFramerate
    \/ SaveFramePayloadListToDisk
    \/ SaveImageListToDisk
    \/ SaveFramePayloadToVideoFile
    \/ Close

Spec == Init /\ [][Next]_vars

(***************************************************************************)
(* Properties.                                                             *)
(***************************************************************************)
\* The events of the last call that are `e` calls on sink `id`.
EventsOn(e, id) == { i \in DOMAIN events : events[i].ev = e /\ events[i].sink = id }

\* The sinks the last call constructed.
Opened == { events[i].sink : i \in { j \in DOMAIN events : events[j].ev = "open" } }

Attempted(e) == \E i \in DOMAIN events : events[i].ev = e

Flushed == called.op = "save_frame_payload_list_to_disk"

\* The rate of a timestamp series: the reciprocal of the median of its
\* consecutive differences, in seconds.
RateOf(timestamps) == reciprocal_of_seconds(np_nanmedian(np_diff(timestamps)))

Finite(rate) == rate.kind = "finite"

\* The second column of the rows of the human-readable file.
CsvValues == IF Len(csv_file.data) = 0 THEN <<>>
             ELSE [i \in 1..Len(csv_file.data) |-> csv_file.data[i][2]]

\* The recorder's sink state.
SinkState ==
    IF self.cv2_video_writer = None THEN "Unopened"
    ELSE IF sink.isOpened THEN "Open"
    ELSE "Closed"

\* C1: a flush of a non-empty buffer has released the sink it opened exactly
\* once when it returns or raises, whether or not an image write failed.
C1_FlushReleasesOnce ==
    (Flushed /\ Len(self.frame_payload_list) > 0) =>
        /\ Cardinality(Opened) = 1
        /\ \A id \in Opened :
              /\ Cardinality(EventsOn("release", id)) = 1
              /\ sink.id = id
              /\ sink.releases = 1
              /\ ~sink.isOpened

\* C1 witness: a flush whose image write failed has returned.
C1_Witness ==
    /\ Flushed
    /\ exc = "cv2.error"
    /\ Attempted("write_failed")
    /\ sink.releases = 1

\* C2: the series a successful flush writes to the two side-files is the
\* buffered frames' timestamps, one per frame, in append order.
C2_PersistedSeriesIsBuffer ==
    (Flushed /\ Len(self.frame_payload_list) > 0 /\ exc = NoExc) =>
        /\ npy_file.data = timestamps_of(self.frame_payload_list)
        /\ CsvValues = timestamps_of(self.frame_payload_list)

\* C3: median_framerate raises on an empty buffer, is non-finite for one
\* buffered frame, and for n >= 2 frames is the rate of exactly the n
\* buffered timestamps.
C3_MedianFramerateOfBuffer ==
    called.op = "median_framerate" =>
        LET n == Len(self.frame_payload_list)
        IN  /\ n = 0 => exc = "Exception"
            /\ n = 1 => exc = NoExc /\ ret.kind \in {"nan", "inf"}
            /\ n >= 2 => exc = NoExc /\ ret = RateOf(timestamps_of(self.frame_payload_list))

\* C4: a flush of an empty buffer changes nothing: no sink call, no file,
\* no error, the recorder and its sink as they were.
C4_EmptyFlushIsNoOp ==
    [][(called'.op = "save_frame_payload_list_to_disk"
          /\ Len(self.frame_payload_list) = 0) =>
            /\ events' = <<>>
            /\ exc' = NoExc
            /\ self' = self
            /\ sink' = sink
            /\ created' = created
            /\ npy_file' = npy_file
            /\ csv_file' = csv_file]_vars

\* C4 witness: a flush of an empty buffer has returned.
C4_Witness ==
    /\ Flushed
    /\ Len(self.frame_payload_list) = 0
    /\ events = <<>>
    /\ exc = NoExc

\* C5: a flush of a non-empty buffer opens one sink, bound to the
\* recorder's path, codec, width and height, at the rate of the buffered
\* timestamps (n >= 2).
C5_FlushOpensAtBufferRate ==
    (Flushed /\ Len(self.frame_payload_list) > 0) =>
        /\ Cardinality(Opened) = 1
        /\ sink.id \in Opened
        /\ sink.path = self.path_to_save_video_file
        /\ sink.fourcc = self.fourcc
        /\ sink.frameSize = <<self.image_width, self.image_height>>
        /\ Len(self.frame_payload_list) >= 2 =>
              sink.fps = RateOf(timestamps_of(self.frame_payload_list))

\* C6: no sink is ever opened with a non-finite frame rate.
C6_NoSinkAtNonFiniteRate ==
    created > 0 => Finite(sink.fps)

\* C7: a streaming write with nothing buffered and no sink raises the
\* empty-buffer error, constructs no sink, writes nothing, and leaves the
\* recorder Unopened.
C7_StreamingWriteOnEmptyFails ==
    [][(called'.op = "save_frame_payload_to_video_file"
          /\ Len(self.frame_payload_list) = 0
          /\ self.cv2_video_writer = None) =>
            /\ exc' = "Exception"
            /\ events' = <<>>
            /\ created' = created
            /\ sink' = sink
            /\ self' = self]_vars

\* C7 witness: such a streaming write has raised.
C7_Witness ==
    /\ called.op = "save_frame_payload_to_video_file"
    /\ exc = "Exception"
    /\ Len(self.frame_payload_list) = 0
    /\ SinkState = "Unopened"
    /\ created = 0

\* C8: a flush that attempts one side-file attempts the other too, and a
\* side-file failure does not leave the flush by an exception.
C8_SideFilesBestEffort ==
    (Flushed /\ (Attempted("np.save") \/ Attempted("to_csv"))) =>
        /\ Attempted("np.save")
        /\ Attempted("to_csv")
        /\ exc = NoExc

\* C9: the sink state only moves Unopened -> Open -> Closed, and a recorder
\* constructs at most one sink.
C9_SinkStateMachine ==
    [][/\ SinkState = "Closed" => SinkState' = "Closed"
       /\ SinkState = "Open" => SinkState' \in {"Open", "Closed"}
       /\ created' <= 1]_vars

\* C10: close() on a sink already released invokes no release and does not
\* raise.
C10_CloseAfterReleaseIsNoOp ==
    [][(called'.op = "close" /\ SinkState = "Closed") =>
            /\ events' = <<>>
            /\ sink' = sink
            /\ exc' = NoExc]_vars

\* The events of the step's call, as <<ev, sink, image>> triples.
Trace(evs) ==
    IF Len(evs) = 0 THEN <<>>
    ELSE [i \in 1..Len(evs) |-> <<evs[i].ev, evs[i].sink, evs[i].image>>]

\* The write calls an image list asks of sink `id`, in list order.
Writes(id, images) ==
    IF Len(images) = 0 THEN <<>>
    ELSE [i \in 1..Len(images) |-> <<"write", id, images[i]>>]

\* C11: an image-list flush of k >= 1 images at an explicit rate r
\* constructs one sink at rate r, releases it once, writes the k images in
\* list order when no write fails, and touches neither the timestamp
\* series, the frame buffer nor the side-files.
C11_ImageListFlushAtRate ==
    [][(called'.op = "save_image_list_to_disk"
          /\ Len(called'.image_list) >= 1
          /\ called'.frame_rate # NoRate) =>
            /\ created' = created + 1
            /\ sink'.id = created'
            /\ sink'.fps = called'.frame_rate
            /\ sink'.releases = 1
            /\ ~sink'.isOpened
            /\ exc' = NoExc =>
                  Trace(events') = <<<<"open", created', 0>>>>
                                     \o Writes(created', called'.image_list)
                                     \o <<<<"release", created', 0>>>>
            /\ \A i \in DOMAIN events' : events'[i].ev \notin {"np.save", "to_csv"}
            /\ npy_file' = npy_file
            /\ csv_file' = csv_file
            /\ self'.timestamps_npy = self.timestamps_npy
            /\ self'.frame_payload_list = self.frame_payload_list]_vars

\* C11 witness: an image-list flush of two images at rate 24 has returned.
C11_Witness ==
    /\ called.op = "save_image_list_to_disk"
    /\ Len(called.image_list) = 2
    /\ called.frame_rate = Float(24, 1)
    /\ exc = NoExc
    /\ sink.fps = Float(24, 1)
    /\ Len(events) = 4

\* The one write call of a streaming write on sink `id`, raising or not.
OneWrite(id, image) ==
    { <<<<"write", id, image>>>>, <<<<"write_failed", id, image>>>> }

\* C12: a streaming write on an Unopened recorder whose rate can be derived
\* constructs the sink and writes its image; a streaming write on a
\* recorder that has a sink constructs none, gathers and computes nothing,
\* and makes exactly one write call, of its image, on that sink; and an
\* Open sink stays the recorder's Open sink over streaming writes, appends
\* and rate reads.
C12_StreamingOpensOnce ==
    [][/\ (called'.op = "save_frame_payload_to_video_file"
             /\ self.cv2_video_writer = None
             /\ Len(self.frame_payload_list) > 0) =>
               /\ created' = created + 1
               /\ sink'.id = created'
               /\ self'.cv2_video_writer = created'
               /\ sink'.isOpened
               /\ \E t \in OneWrite(created', called'.frame_payload.image) :
                     Trace(events') = <<<<"open", created', 0>>>> \o t
       /\ (called'.op = "save_frame_payload_to_video_file"
             /\ self.cv2_video_writer # None) =>
               /\ created' = created
               /\ sink' = sink
               /\ self' = self
               /\ Trace(events') \in OneWrite(sink.id, called'.frame_payload.image)
       /\ (called'.op \in {"save_frame_payload_to_video_file",
                           "append_frame_payload_to_list", "median_framerate"}
             /\ SinkState = "Open") =>
               sink' = sink]_vars

\* C12 witness: a second streaming write has gone to the sink the first one
\* opened, which is still open and still the only sink constructed.
C12_Witness ==
    /\ called.op = "save_frame_payload_to_video_file"
    /\ Len(events) = 1
    /\ events[1].ev = "write"
    /\ events[1].opened
    /\ SinkState = "Open"
    /\ created = 1
    /\ sink.releases = 0

\* The buffered images before the k-th.
ImagesBefore(k) == SubSeq(images_of(self.frame_payload_list), 1, k - 1)

\* C13: a flush of n frames that returns has called, in this order: the
\* sink's construction, one write per buffered frame in buffer order, the
\* release, np.save, to_csv.
C13_FlushOrder ==
    (Flushed /\ Len(self.frame_payload_list) > 0 /\ exc = NoExc) =>
        Trace(events) = <<<<"open", sink.id, 0>>>>
                          \o Writes(sink.id, images_of(self.frame_payload_list))
                          \o <<<<"release", sink.id, 0>>, <<"np.save", 0, 0>>,
                               <<"to_csv", 0, 0>>>>

\* C13 witness: a flush of three frames has returned.
C13_Witness ==
    /\ Flushed
    /\ Len(self.frame_payload_list) = 3
    /\ exc = NoExc
    /\ Len(events) = 7

\* C14: a flush whose k-th write raised has written the k - 1 images
\* before it and none after, has released the sink as its last call, and
\* leaves by the write's error.
C14_FailedWriteStopsAndRaises ==
    (Flushed /\ Attempted("write_failed")) =>
        \E k \in 1..Len(self.frame_payload_list) :
            /\ Trace(events) =
                  <<<<"open", sink.id, 0>>>>
                    \o Writes(sink.id, ImagesBefore(k))
                    \o <<<<"write_failed", sink.id, self.frame_payload_list[k].image>>,
                         <<"release", sink.id, 0>>>>
            /\ exc = "cv2.error"

\* C14 witness: the second of three writes raised.
C14_Witness ==
    /\ Flushed
    /\ Len(self.frame_payload_list) = 3
    /\ Len(events) = 4
    /\ events[3].ev = "write_failed"
    /\ exc = "cv2.error"

\* C15: append adds its one frame at the end of the buffer and every other
\* call leaves the buffer as it was.
C15_BufferGrowsOnlyByAppend ==
    [][IF called'.op = "append_frame_payload_to_list"
       THEN /\ called'.frame_payload \in Frames
            /\ self'.frame_payload_list =
                  Append(self.frame_payload_list, called'.frame_payload)
            /\ Len(self'.frame_payload_list) = Len(self.frame_payload_list) + 1
       ELSE self'.frame_payload_list = self.frame_payload_list]_vars

\* C15 witness: a frame with an earlier timestamp was appended after a
\* later one, and a flush has since left both in the buffer.
C15_Witness ==
    /\ Flushed
    /\ exc = NoExc
    /\ Len(self.frame_payload_list) = 2
    /\ self.frame_payload_list[1].timestamp > self.frame_payload_list[2].timestamp

\* C16: a median_framerate read that follows a read returns what that read
\* returned, and no read changes the timestamp series a flush will save.
C16_MedianFramerateReadIsPure ==
    [][called'.op = "median_framerate" =>
          /\ self'.timestamps_npy = self.timestamps_npy
          /\ (called.op = "median_framerate" /\ exc = NoExc) => ret' = ret]_vars

\* C17: every write call is made on a sink that is open.
C17_WritesOnlyToOpenSink ==
    \A i \in DOMAIN events :
        events[i].ev \in {"write", "write_failed"} => events[i].opened

\* C18: a flush that a failed image write ends attempts neither side-file
\* and leaves both as they were.
C18_NoSideFilesAfterFailedWrite ==
    [][(called'.op = "save_frame_payload_list_to_disk"
          /\ \E i \in DOMAIN events' : events'[i].ev = "write_failed") =>
            /\ \A i \in DOMAIN events' : events'[i].ev \notin {"np.save", "to_csv"}
            /\ npy_file' = npy_file
            /\ csv_file' = csv_file]_vars

\* C18 witness: a flush ended by a failed write, with no side-file on disk.
C18_Witness ==
    /\ Flushed
    /\ Attempted("write_failed")
    /\ ~npy_file.exists
    /\ ~csv_file.exists

\* C19: close() on an Unopened recorder makes no call on any sink and
\* leaves the recorder, Unopened, and its buffer as they were, so that
\* what a later flush or streaming write does is not changed by it.
C19_CloseWhileUnopened ==
    [][(called'.op = "close" /\ SinkState = "Unopened") =>
            /\ events' = <<>>
            /\ SinkState' = "Unopened"
            /\ self' = self
            /\ sink' = sink
            /\ created' = created
            /\ npy_file' = npy_file
            /\ csv_file' = csv_file]_vars

\* C19 witness: close() was called on an Unopened recorder holding a frame.
C19_Witness ==
    /\ called.op = "close"
    /\ SinkState = "Unopened"
    /\ Len(self.frame_payload_list) > 0
    /\ exc = "AttributeError"

====
